---------------------------- MODULE Spec2Model ----------------------------
(***************************************************************************)
(* Model of src/window.rs (Gradients): the VibrantWindow widgets, the four *)
(* change notifications wired in setup_signals, and update_gradient, which *)
(* formats a CSS rule from the current widget values and installs it as a  *)
(* style provider on the display.                                          *)
(*                                                                         *)
(* Colour channels are floats in the program; here a channel is an integer *)
(* number of thousandths (0 .. 1000 stands for 0.0 .. 1.0).  A u32 is the   *)
(* pair of its 16-bit halves, [hi, lo], of value hi * 2^16 + lo.           *)
(***************************************************************************)
EXTENDS Integers, Naturals, Sequences, FiniteSets, TLC

VARIABLES
    pc,                  \* position in VibrantWindow::new / the main loop
    gradient_combo,      \* gradient_combo.selected()  (u32)
    direction_combo,     \* direction_combo.selected() (u32)
    direction_sensitive, \* direction_combo's "sensitive" property
    color_one,           \* color_one_button.rgba()
    color_two,           \* color_two_button.rgba()
    pending,             \* the notification being delivered, or "none"
    gradient_type,       \* update_gradient's local, as of its last run
    degree,              \* update_gradient's local, as of its last run
    gradient,            \* update_gradient's local, as of its last run
    css,                 \* update_gradient's local, as of its last run
    display,             \* style providers added to the display, oldest first
    history              \* every run of update_gradient: what it read and its css

vars == <<pc, gradient_combo, direction_combo, direction_sensitive, color_one,
          color_two, pending, gradient_type, degree, gradient, css, display,
          history>>

inputs == <<gradient_combo, direction_combo, color_one, color_two>>

locals == <<gradient_type, degree, gradient, css>>

-----------------------------------------------------------------------------
(* Bounds of the model *)

\* update_gradient runs at most this many times in one behaviour
MaxInstalls == 5

-----------------------------------------------------------------------------
(* Widgets as the template builds them *)

\* number of entries of the gradient-kind selector
KindItems == 3

\* number of entries of the direction selector
DirectionItems == 4

U16 == 2^16

\* the u32 of value n
U32(n) == [hi |-> n \div U16, lo |-> n % U16]

\* GTK_INVALID_LIST_POSITION (4294967295), what selected() returns with
\* nothing selected
InvalidListPosition == [hi |-> U16 - 1, lo |-> U16 - 1]

\* the selected indices the two selectors of the window deliver
KindIndices == {U32(i) : i \in 0 .. (KindItems - 1)}

DirectionIndices == {U32(i) : i \in 0 .. (DirectionItems - 1)}

\* indices over the whole u32 range of selected(): past the entries, past
\* 16 bits, and the no-selection value
U32KindSamples ==
    {U32(0), U32(1), U32(2), U32(3), U32(65537), U32(65538), InvalidListPosition}

U32DirectionSamples ==
    {U32(0), U32(1), U32(2), U32(3), U32(65537), InvalidListPosition}

RGBA(r, g, b, a) == [red |-> r, green |-> g, blue |-> b, alpha |-> a]

\* gdk::RGBA::BLUE
BLUE == RGBA(0, 0, 1000, 1000)

\* gdk::RGBA::new(1.0, 0.75, 0.8, 1.0)
PINK == RGBA(1000, 750, 800, 1000)

\* a ColorDialogButton before set_rgba
TRANSPARENT == RGBA(0, 0, 0, 0)

\* the colours a user picks in the dialogs
Colors == {BLUE, PINK, RGBA(500, 250, 0, 500)}

-----------------------------------------------------------------------------
(* gdk::RGBA's Display, which is gdk_rgba_to_string *)

Clamp(x, lo, hi) == IF x < lo THEN lo ELSE IF x > hi THEN hi ELSE x

\* (int)(0.5 + CLAMP(channel, 0., 1.) * 255.), clamped to 0 .. 255
Channel(p) == Clamp((500 + Clamp(p, 0, 1000) * 255) \div 1000, 0, 255)

\* "%g" of an alpha below 1
AlphaToString(a) ==
    LET d1 == a \div 100
        d2 == (a \div 10) % 10
        d3 == a % 10
    IN  IF a = 0 THEN "0"
        ELSE IF d3 # 0 THEN "0." \o ToString(d1) \o ToString(d2) \o ToString(d3)
        ELSE IF d2 # 0 THEN "0." \o ToString(d1) \o ToString(d2)
        ELSE "0." \o ToString(d1)

RgbaToString(c) ==
    LET rgb == ToString(Channel(c.red)) \o "," \o ToString(Channel(c.green))
               \o "," \o ToString(Channel(c.blue))
    IN  IF c.alpha > 999
        THEN "rgb(" \o rgb \o ")"
        ELSE "rgba(" \o rgb \o "," \o AlphaToString(Clamp(c.alpha, 0, 1000)) \o ")"

-----------------------------------------------------------------------------
(* impl From<u32> for GradientType *)

\* mutant: the index is matched after truncation to 16 bits
From_truncated(value) ==
    CASE value.lo = 1 -> "Radial"
      [] value.lo = 2 -> "Conic"
      [] OTHER        -> "Linear"

From(value) ==
    CASE value = U32(1) -> "Radial"
      [] value = U32(2) -> "Conic"
      [] OTHER     -> "Linear"

-----------------------------------------------------------------------------
(* update_gradient *)

\* `selected() as u16`
AsU16(value) == value.lo

\* `selected() as u16 * 90` leaves the u16 range
MulOverflows(selected) == AsU16(selected) * 90 >= U16

\* the product as a release build wraps it
Degree(selected) == (AsU16(selected) * 90) % U16

\* mutant: every multiple of 90 is flipped
Adjustment_every_90(deg) == IF deg % 90 = 0 THEN 180 ELSE 0

\* (degree % 180 == 0) as u16 * 180
Adjustment(deg) == IF deg % 180 = 0 THEN 180 ELSE 0

\* `degree + ...` in the conic arm leaves the u16 range
AddOverflows(deg) == deg + Adjustment(deg) >= U16

ConicDegree(deg) == (deg + Adjustment(deg)) % U16

\* the arithmetic update_gradient evaluates overflows for these values
Overflows(kind, selected) ==
    \/ MulOverflows(selected)
    \/ kind = "Conic" /\ AddOverflows(Degree(selected))

\* mutant: the radial head carries the direction too
GradientHead_radial_at(kind, deg) ==
    CASE kind = "Linear" -> "linear-gradient(" \o ToString(deg) \o "deg,"
      [] kind = "Radial" -> "radial-gradient(at " \o ToString(deg) \o "deg,"
      [] kind = "Conic"  -> "conic-gradient(from " \o ToString(ConicDegree(deg)) \o "deg,"

GradientHead(kind, deg) ==
    CASE kind = "Linear" -> "linear-gradient(" \o ToString(deg) \o "deg,"
      [] kind = "Radial" -> "radial-gradient("
      [] kind = "Conic"  -> "conic-gradient(from " \o ToString(ConicDegree(deg)) \o "deg,"

\* mutant: the two colours are emitted in the wrong order
Css_swapped(head, one, two) ==
    ".gradient-box {background: " \o head \o " " \o RgbaToString(two) \o ", "
    \o RgbaToString(one) \o ");}"

Css(head, one, two) ==
    ".gradient-box {background: " \o head \o " " \o RgbaToString(one) \o ", "
    \o RgbaToString(two) \o ");}"

\* the provider is added to the display; nothing is removed from it
AddProvider(providers, rule) == Append(providers, rule)

\* mutant: the degree is the one the previous run computed
update_gradient_stale_degree ==
    LET kind == From(gradient_combo')
        head == GradientHead(kind, degree)
        rule == Css(head, color_one', color_two')
    IN  /\ pc' = "run"
        /\ gradient_type' = kind
        /\ degree' = Degree(direction_combo')
        /\ gradient' = head
        /\ css' = rule
        /\ display' = AddProvider(display, rule)
        /\ history' = Append(history,
               [read |-> <<gradient_combo', direction_combo',
                           color_one', color_two'>>,
                css  |-> rule])

\* The body of update_gradient, reading the widgets as they are when it is
\* called.  An overflowing u16 operation panics in a build with overflow
\* checks and wraps in one without.
update_gradient ==
    LET kind == From(gradient_combo')
        deg  == Degree(direction_combo')
        head == GradientHead(kind, deg)
        rule == Css(head, color_one', color_two')
        run  == /\ gradient_type' = kind
                /\ degree' = deg
                /\ gradient' = head
                /\ css' = rule
                /\ display' = AddProvider(display, rule)
                /\ history' = Append(history,
                       [read |-> <<gradient_combo', direction_combo',
                                   color_one', color_two'>>,
                        css  |-> rule])
    IN  IF Overflows(kind, direction_combo')
        THEN \/ /\ pc' = "panicked"
                /\ UNCHANGED <<locals, display, history>>
             \/ /\ pc' = "run"
                /\ run
        ELSE /\ pc' = "run"
             /\ run

-----------------------------------------------------------------------------
(* VibrantWindow::new *)

\* what the template leaves selected in both selectors: their first entry
template_selected == U32(0)

\* the template leaves the direction selector sensitive
template_sensitive == TRUE

Init ==
    /\ pc = "init"
    /\ gradient_combo = template_selected
    /\ direction_combo = template_selected
    /\ direction_sensitive = template_sensitive
    /\ color_one = TRANSPARENT
    /\ color_two = TRANSPARENT
    /\ pending = "none"
    /\ gradient_type = "none"
    /\ degree = 0
    /\ gradient = ""
    /\ css = ""
    /\ display = <<>>
    /\ history = <<>>

\* init(), then setup_signals(): the handlers are connected when the main
\* loop starts delivering changes
init ==
    /\ pc = "init"
    /\ color_one' = BLUE
    /\ color_two' = PINK
    /\ UNCHANGED <<gradient_combo, direction_combo, direction_sensitive, pending>>
    /\ update_gradient

-----------------------------------------------------------------------------
(* The toolkit changes a property and emits its notification *)

CanChange == pc = "run" /\ pending = "none" /\ Len(display) < MaxInstalls

select_gradient(K) ==
    /\ CanChange
    /\ \E k \in K \ {gradient_combo} : gradient_combo' = k
    /\ pending' = "gradient_combo"
    /\ UNCHANGED <<pc, direction_combo, direction_sensitive, color_one,
                   color_two, locals, display, history>>

select_direction(D) ==
    /\ CanChange
    /\ \E d \in D \ {direction_combo} : direction_combo' = d
    /\ pending' = "direction_combo"
    /\ UNCHANGED <<pc, gradient_combo, direction_sensitive, color_one,
                   color_two, locals, display, history>>

pick_color_one ==
    /\ CanChange
    /\ \E c \in Colors \ {color_one} : color_one' = c
    /\ pending' = "color_one_button"
    /\ UNCHANGED <<pc, gradient_combo, direction_combo, direction_sensitive,
                   color_two, locals, display, history>>

pick_color_two ==
    /\ CanChange
    /\ \E c \in Colors \ {color_two} : color_two' = c
    /\ pending' = "color_two_button"
    /\ UNCHANGED <<pc, gradient_combo, direction_combo, direction_sensitive,
                   color_one, locals, display, history>>

-----------------------------------------------------------------------------
(* The closures connected in setup_signals *)

\* mutant: set_sensitive is left out
on_gradient_combo_notify_no_sensitive ==
    /\ pc = "run"
    /\ pending = "gradient_combo"
    /\ pending' = "none"
    /\ UNCHANGED <<inputs, direction_sensitive>>
    /\ update_gradient

\* mutant: choosing Radial also resets the direction selector
on_gradient_combo_notify_resets_direction ==
    /\ pc = "run"
    /\ pending = "gradient_combo"
    /\ direction_sensitive' = (gradient_combo # U32(1))
    /\ direction_combo' = IF gradient_combo = U32(1) THEN U32(0) ELSE direction_combo
    /\ pending' = "none"
    /\ UNCHANGED <<gradient_combo, color_one, color_two>>
    /\ update_gradient

on_gradient_combo_notify ==
    /\ pc = "run"
    /\ pending = "gradient_combo"
    /\ direction_sensitive' = (gradient_combo # U32(1))
    /\ pending' = "none"
    /\ UNCHANGED inputs
    /\ update_gradient

on_direction_combo_notify ==
    /\ pc = "run"
    /\ pending = "direction_combo"
    /\ pending' = "none"
    /\ UNCHANGED <<inputs, direction_sensitive>>
    /\ update_gradient

on_color_one_notify ==
    /\ pc = "run"
    /\ pending = "color_one_button"
    /\ pending' = "none"
    /\ UNCHANGED <<inputs, direction_sensitive>>
    /\ update_gradient

\* mutant: the closure does not call update_gradient
on_color_two_notify_no_update ==
    /\ pc = "run"
    /\ pending = "color_two_button"
    /\ pending' = "none"
    /\ UNCHANGED <<pc, inputs, direction_sensitive, locals, display, history>>

on_color_two_notify ==
    /\ pc = "run"
    /\ pending = "color_two_button"
    /\ pending' = "none"
    /\ UNCHANGED <<inputs, direction_sensitive>>
    /\ update_gradient

Handlers ==
    \/ on_gradient_combo_notify
    \/ on_direction_combo_notify
    \/ on_color_one_notify
    \/ on_color_two_notify

-----------------------------------------------------------------------------
(* Specifications *)

\* the window as built: the selectors deliver the indices of their entries
Next ==
    \/ init
    \/ select_gradient(KindIndices)
    \/ select_direction(DirectionIndices)
    \/ pick_color_one
    \/ pick_color_two
    \/ Handlers

Spec == Init /\ [][Next]_vars

\* update_gradient over the whole range of the u32 that selected() returns
NextU32 ==
    \/ init
    \/ select_gradient(U32KindSamples)
    \/ select_direction(U32DirectionSamples)
    \/ pick_color_one
    \/ pick_color_two
    \/ Handlers

SpecU32 == Init /\ [][NextU32]_vars

-----------------------------------------------------------------------------
(* Properties *)

\* construction is over and every change delivered so far has been handled
Handled == pc = "run" /\ pending = "none"

\* the rule update_gradient computes from the widgets as they are now
CurrentCss ==
    Css(GradientHead(From(gradient_combo), Degree(direction_combo)),
        color_one, color_two)

\* C1: with Conic selected and direction step d in 0 .. 3, the head is
\* conic-gradient(from <a>deg, with a = 90 d + 180 when 90 d is a multiple of
\* 180 and a = 90 d otherwise: 180, 90, 360, 270 for d = 0, 1, 2, 3.
C1_ConicHead ==
    (Handled /\ gradient_combo = U32(2) /\ direction_combo \in {U32(d) : d \in 0 .. 3}) =>
        /\ degree = 90 * direction_combo.lo
        /\ gradient = "conic-gradient(from "
                      \o ToString(IF degree % 180 = 0 THEN degree + 180 ELSE degree)
                      \o "deg,"
        /\ direction_combo = U32(0) => gradient = "conic-gradient(from 180deg,"
        /\ direction_combo = U32(1) => gradient = "conic-gradient(from 90deg,"
        /\ direction_combo = U32(2) => gradient = "conic-gradient(from 360deg,"
        /\ direction_combo = U32(3) => gradient = "conic-gradient(from 270deg,"

C1_Witness ==
    /\ Handled
    /\ gradient_combo = U32(2)
    /\ direction_combo = U32(2)
    /\ gradient = "conic-gradient(from 360deg,"

\* C2: at most one style provider installed by update_gradient is on the
\* display, the one of the latest invocation.
C2_AtMostOneProvider ==
    /\ Len(display) <= 1
    /\ Handled => display = <<css>>

\* C3: whenever no gradient-kind change is still being delivered, the
\* direction selector is insensitive exactly when the selected gradient-kind
\* index is 1.
C3_SensitiveIffNotRadial ==
    pending # "gradient_combo" =>
        (~direction_sensitive <=> gradient_combo = U32(1))

C3_Witness ==
    /\ Handled
    /\ gradient_combo = U32(1)
    /\ ~direction_sensitive
    /\ Len(display) >= 2

\* C4: after construction and after every handled change, the most recently
\* installed rule is the one computed from the current four inputs.
C4_PreviewNeverStale ==
    Handled =>
        /\ display # <<>>
        /\ display[Len(display)] = CurrentCss
        /\ css = CurrentCss

C4_Witness ==
    /\ Handled
    /\ Len(display) >= 3
    /\ color_two # PINK
    /\ gradient_combo # U32(0)
    /\ direction_combo # U32(0)

\* C5: GradientType::from maps index 1 to Radial, index 2 to Conic and every
\* other u32 to Linear.
C5_FromTotal ==
    Handled =>
        /\ gradient_type \in {"Linear", "Radial", "Conic"}
        /\ gradient_type = "Radial" <=> (gradient_combo.hi = 0 /\ gradient_combo.lo = 1)
        /\ gradient_type = "Conic" <=> (gradient_combo.hi = 0 /\ gradient_combo.lo = 2)

C5_Witness ==
    /\ Handled
    /\ gradient_combo = InvalidListPosition
    /\ gradient_type = "Linear"

\* C6: with Radial selected the head is exactly radial-gradient( and the rule
\* is the same for every direction step, so a direction change handled while
\* Radial is selected installs the rule that was installed before it.
C6_RadialIgnoresDirection ==
    /\ [](Handled /\ gradient_combo = U32(1) =>
            /\ gradient = "radial-gradient("
            /\ \A d \in U32DirectionSamples :
                   css = Css(GradientHead("Radial", Degree(d)), color_one, color_two))
    /\ [][(pending = "direction_combo" /\ gradient_combo = U32(1)) =>
            (css' = css /\ display'[Len(display')] = display[Len(display)])]_vars

C6_Witness ==
    /\ Handled
    /\ gradient_combo = U32(1)
    /\ direction_combo = U32(3)
    /\ Len(history) >= 2
    /\ history[Len(history) - 1].read[2] # direction_combo
    /\ history[Len(history) - 1].read[1] = U32(1)

\* C7: with Linear selected and direction step d in 0 .. 3 the rule is
\* .gradient-box {background: linear-gradient(<90 d>deg, <one>, <two>);}
C7_LinearRule ==
    (/\ Handled
     /\ gradient_combo \notin {U32(1), U32(2)}
     /\ direction_combo \in {U32(d) : d \in 0 .. 3}) =>
        /\ gradient = "linear-gradient(" \o ToString(90 * direction_combo.lo) \o "deg,"
        /\ css = ".gradient-box {background: linear-gradient("
                 \o ToString(90 * direction_combo.lo) \o "deg, "
                 \o RgbaToString(color_one) \o ", " \o RgbaToString(color_two)
                 \o ");}"

C7_Witness ==
    /\ Handled
    /\ gradient_combo = U32(0)
    /\ direction_combo = U32(2)
    /\ color_one = PINK
    /\ color_two = PINK
    /\ css = ".gradient-box {background: linear-gradient(180deg, rgb(255,191,204), rgb(255,191,204));}"

C9_Deterministic ==
    /\ \A i, j \in DOMAIN history :
           history[i].read = history[j].read => history[i].css = history[j].css
    /\ \A i \in DOMAIN history :
           history[i].css =
               Css(GradientHead(From(history[i].read[1]), Degree(history[i].read[2])),
                   history[i].read[3], history[i].read[4])

C9_Witness ==
    \E i, j \in DOMAIN history :
        /\ i + 1 < j
        /\ history[i].read = history[j].read
        /\ history[i + 1].read # history[i].read

\* C10: a handler leaves the four inputs as they are and runs update_gradient
\* exactly once, after which no notification is pending; the change that
\* raised it altered one input and ran nothing.
C10_HandlersOnlyRead ==
    [][/\ pending # "none" =>
            /\ inputs' = inputs
            /\ pending' = "none"
            /\ Len(history') = Len(history) + 1
            /\ Len(display') = Len(display) + 1
       /\ (pending = "none" /\ pending' # "none") =>
            /\ Cardinality({i \in 1 .. 4 : inputs'[i] # inputs[i]}) = 1
            /\ direction_sensitive' = direction_sensitive
            /\ history' = history
            /\ display' = display]_vars

C10_Witness ==
    /\ Handled
    /\ gradient_combo = U32(1)
    /\ ~direction_sensitive
    /\ direction_combo = U32(2)
    /\ Len(history) = 3

=============================================================================
